---- MODULE Spec2Model ----
(***************************************************************************)
(* The cosign engine of coordinator/cosign: the Intend, Evaluate and Delay *)
(* tasks, the intake of signed cosigns and the public facade, over a       *)
(* finalized chain supplied by the Serai node (the oracle).                *)
(*                                                                         *)
(* Conventions.  Option<T> is a sequence: <<>> is None, <<x>> is Some(x).  *)
(* The hash of finalized block n is n itself; BadHash is the hash of a     *)
(* block the node has not finalized.  A public key is the validator set it   *)
(* belongs to, and a signature is the key that produced it.                *)
(***************************************************************************)
EXTENDS Integers, Sequences, FiniteSets, TLC

\* ------------------------------------------------------------------ bounds
MaxBlock == 2
MaxCosigns == 2
TickStep == 70
MaxTime == 70
MaxStake == 13
WordBits == 10

\* --------------------------------------------------------------- constants
BROADCAST_FREQUENCY == 60
SYNCHRONY_EXPECTATION == 10
ACKNOWLEDGEMENT_DELAY == BROADCAST_FREQUENCY + SYNCHRONY_EXPECTATION

NETWORKS == <<1, 2, 3>>
Networks == {NETWORKS[i] : i \in 1..Len(NETWORKS)}

None == <<>>
Some(x) == <<x>>

BlockHashOf(n) == n
BadHash == BlockHashOf(MaxBlock + 1)

\* ------------------------------------------------------------------ oracle
\* The sets with usable keys as of a block: network -> session (0: no keys).
\* The last network of NETWORKS never has a session declared.
Unkeyed == NETWORKS[Len(NETWORKS)]
NoSets == [n \in Networks |-> 0]
KeyedSets == {[n \in Networks |-> IF n = Unkeyed THEN 0 ELSE 1],
              [n \in Networks |-> IF n = Unkeyed THEN 0 ELSE IF n = 1 THEN 2 ELSE 1]}
SetsChoices == {NoSets} \cup KeyedSets

\* total_allocated_stake(network) as of a block, by the sets as of that block:
\* the allocation changes when network 1 rotates its session.
total_allocated_stake(sets, network) ==
  IF sets[network] = 0 THEN 0
  ELSE IF sets[1] = 2 THEN 6
  ELSE IF network = 1 THEN 11 ELSE 1

VARIABLES
  chain,      \* the finalized blocks: [key_gen, burn, sets]
  now,        \* wall clock, unix seconds
  ScanCosignFrom, intend_latest,
  BlockEvents, GlobalSessionsChannel, IntendedCosigns,
  GlobalSessions, LatestGlobalSessionIntended, GlobalSessionLastBlock,
  LatestCosignedBlockNumber, CurrentlyEvaluatedGlobalSession, CosignedBlocks,
  eval_pc, local_latest_cosigned, known_cosign,
  Cosigns, NetworksLatestCosignedBlock, Faults, FaultedSession,
  LatestAcknowledgedBlockNumber, delay_pc, delay_wake,
  args, ret   \* the inputs and the result of a function applied on its own

oracleVars == <<chain, now>>
intendVars == <<ScanCosignFrom, intend_latest, BlockEvents, GlobalSessionsChannel,
                IntendedCosigns, GlobalSessions, LatestGlobalSessionIntended,
                GlobalSessionLastBlock>>
evalVars == <<LatestCosignedBlockNumber, CurrentlyEvaluatedGlobalSession, CosignedBlocks,
              eval_pc, local_latest_cosigned, known_cosign>>
intakeVars == <<Cosigns, NetworksLatestCosignedBlock, Faults, FaultedSession>>
delayVars == <<LatestAcknowledgedBlockNumber, delay_pc, delay_wake>>
callVars == <<args, ret>>
vars == <<oracleVars, intendVars, evalVars, intakeVars, delayVars, callVars>>

latest_finalized_block == Len(chain)

\* as_of(hash): the sets as of the block with that hash (block 0 is genesis).
SetsAsOf(hash) == IF hash = 0 THEN NoSets ELSE chain[hash].sets

unwrap_or(opt, d) == IF opt = None THEN d ELSE opt[1]

\* keys_for_network: the session whose keys cosign for the network, with the key.
keys_for_network(sets, network) ==
  IF sets[network] = 0 THEN None
  ELSE Some([session |-> sets[network], key |-> <<network, sets[network]>>])

\* cosigning_sets: one ValidatorSet per network with usable keys, in NETWORKS order.
cosigning_sets(sets) ==
  LET all == [i \in 1..Len(NETWORKS) |-> <<NETWORKS[i], sets[NETWORKS[i]]>>]
  IN  SelectSeq(all, LAMBDA vs : keys_for_network(sets, vs[1]) # None)

\* cosigning_sets_for_block: the sets as of the parent block.
cosigning_sets_for_block(block_number) == cosigning_sets(SetsAsOf(BlockHashOf(block_number - 1)))

\* GlobalSession::new(..).id(): the digest of the sorted list, i.e. of the set.
GlobalSessionId(cosigners) == {cosigners[i] : i \in 1..Len(cosigners)}

AllSessionIds == {GlobalSessionId(cosigning_sets(s)) : s \in SetsChoices}

\* ------------------------------------------------------------------ intend
block_has_events_justifying_a_cosign_of_key_gen(block) ==
  IF block.key_gen THEN "Notable" ELSE "No"
block_has_events_justifying_a_cosign(block) ==
  IF block.key_gen THEN "Notable"
  ELSE IF block.burn THEN "NonNotable"
  ELSE "No"

ValidatorSets == UNION AllSessionIds

\* The classification Intend sends for the block: the events found, flagged as
\* "No" when no set can cosign the block.
has_events_sent_as_found(block_number) ==
  block_has_events_justifying_a_cosign(chain[block_number])
has_events_sent(block_number) ==
  LET found == block_has_events_justifying_a_cosign(chain[block_number])
  IN  IF found # "No" /\ cosigning_sets_for_block(block_number) = <<>> THEN "No" ELSE found

\* The session info sent on the GlobalSessions channel with the id: the start
\* block and the stake of each network as of it.
GlobalSessionInfo(id, start_block_number) ==
  [id |-> id, start_block_number |-> start_block_number,
   stakes |-> [n \in Networks |->
                 total_allocated_stake(SetsAsOf(BlockHashOf(start_block_number)), n)]]

GlobalSessionsChannelSend(channel, id, start_block_number) ==
  Append(channel, GlobalSessionInfo(id, start_block_number))

\* ScanCosignFrom::set(&mut txn, &(block_number + 1))
ScannedSkipping(block_number) == block_number + 2
Scanned(block_number) == block_number + 1

\* ScanCosignFrom::get(&self.db).unwrap_or(1): the block a run_iteration starts
\* from, and with every pass committing ScanCosignFrom the block of each pass.
start_block_number_first == 1
start_block_number == ScanCosignFrom

\* LatestGlobalSessionIntended::get(&txn): the session a Notable block ends.
ending_global_session_never == None
ending_global_session == LatestGlobalSessionIntended

\* One pass of the loop body of CosignIntendTask::run_iteration: a transaction.
IntendBlock ==
  LET latest_block_number == IF intend_latest = 0 THEN latest_finalized_block ELSE intend_latest
      block_number == start_block_number
  IN
  /\ block_number <= latest_block_number
  /\ LET block == chain[block_number]
         found == block_has_events_justifying_a_cosign(block)
         sets == cosigning_sets_for_block(block_number)
         cosigned == found # "No"
         notable == found = "Notable"
         new_session == GlobalSessionId(cosigning_sets(SetsAsOf(BlockHashOf(block_number))))
         has_events == has_events_sent(block_number)
         intent == [global_session |-> GlobalSessionId(sets), block_number |-> block_number,
                    block_hash |-> BlockHashOf(block_number), notable |-> has_events = "Notable"]
     IN
     /\ GlobalSessions' =
          IF notable
          THEN [GlobalSessions EXCEPT ![new_session] =
                  Some([number |-> block_number, hash |-> BlockHashOf(block_number)])]
          ELSE GlobalSessions
     /\ GlobalSessionLastBlock' =
          IF notable /\ ending_global_session # None
          THEN [GlobalSessionLastBlock EXCEPT ![ending_global_session[1]] = Some(block_number)]
          ELSE GlobalSessionLastBlock
     /\ LatestGlobalSessionIntended' =
          IF notable THEN Some(new_session) ELSE LatestGlobalSessionIntended
     /\ GlobalSessionsChannel' =
          IF notable THEN GlobalSessionsChannelSend(GlobalSessionsChannel, new_session, block_number)
          ELSE GlobalSessionsChannel
     /\ IntendedCosigns' =
          IF cosigned /\ sets # <<>>
          THEN [vs \in ValidatorSets |->
                  IF vs \in GlobalSessionId(sets) THEN Append(IntendedCosigns[vs], intent)
                  ELSE IntendedCosigns[vs]]
          ELSE IntendedCosigns
     /\ BlockEvents' = Append(BlockEvents, [block_number |-> block_number, has_events |-> has_events])
     /\ ScanCosignFrom' = Scanned(block_number)
     /\ intend_latest' = IF Scanned(block_number) > latest_block_number THEN 0
                         ELSE latest_block_number
  /\ UNCHANGED <<callVars, oracleVars, evalVars, intakeVars, delayVars>>

\* ------------------------------------------------------------------ oracle
\* The node finalizes one more block, with a key-generation event, a
\* burn-with-instruction event or neither.  The cosigning sets change only with
\* a key-generation event, which may also leave them as they are.
Finalize ==
  /\ Len(chain) < MaxBlock
  /\ \E key_gen \in BOOLEAN, burn \in BOOLEAN, sets \in SetsChoices :
       /\ ~(key_gen /\ burn)
       /\ IF key_gen THEN sets \in KeyedSets ELSE sets = SetsAsOf(BlockHashOf(Len(chain)))
       /\ chain' = Append(chain, [key_gen |-> key_gen, burn |-> burn, sets |-> sets])
  /\ UNCHANGED <<callVars, now, intendVars, evalVars, intakeVars, delayVars>>

\* A key-generation event sets the keys of a later session of some network:
\* the sessions with keys never go back and at least one moves on.
KeyGen(before, after) ==
  /\ after # before
  /\ \A n \in Networks : before[n] <= after[n]

\* The node finalizes one more block, every key-generation event of which
\* moves the cosigning sets on, so that no two blocks declare the same sets.
FinalizeKeyGen ==
  /\ Len(chain) < MaxBlock
  /\ \E key_gen \in BOOLEAN, burn \in BOOLEAN, sets \in SetsChoices :
       /\ ~(key_gen /\ burn)
       /\ IF key_gen THEN sets \in KeyedSets /\ KeyGen(SetsAsOf(BlockHashOf(Len(chain))), sets)
          ELSE sets = SetsAsOf(BlockHashOf(Len(chain)))
       /\ chain' = Append(chain, [key_gen |-> key_gen, burn |-> burn, sets |-> sets])
  /\ UNCHANGED <<callVars, now, intendVars, evalVars, intakeVars, delayVars>>

\* The clock advances, within the bound or while the Delay task sleeps.
Tick ==
  /\ \/ now + TickStep <= MaxTime
     \/ delay_pc = "sleep" /\ now < delay_wake
  /\ now' = now + TickStep
  /\ UNCHANGED <<callVars, chain, intendVars, evalVars, intakeVars, delayVars>>

\* --------------------------------------------------------------- evaluator
RECURSIVE SumStakes(_, _)
SumStakes(stakes, networks) ==
  IF networks = {} THEN 0
  ELSE LET n == CHOOSE x \in networks : TRUE
       IN  stakes[n] + SumStakes(stakes, networks \ {n})

\* GlobalSession.sets and GlobalSession.total_stake of the session info.
SessionNetworks(global_session) == {vs[1] : vs \in global_session}
total_stake(info) == SumStakes(info.stakes, SessionNetworks(info.id))

\* NetworksLatestCosignedBlock::get(txn, global_session, network): the latest
\* cosign stored for the network, when it is one of that global session.
NetworksLatestCosignedBlockGet(global_session, network) ==
  LET stored == NetworksLatestCosignedBlock[network]
  IN  IF stored # None /\ stored[1].cosign.global_session = global_session THEN stored ELSE None

\* currently_evaluated_global_session_strict, on the transaction's view
\* (current, channel); panic names the expect/assert that failed, if any.
currently_evaluated_global_session_strict_peeking(current, channel, block_number) ==
  IF current = None /\ channel = <<>>
  THEN [panic |-> "panic_no_session", current |-> current, channel |-> channel, res |-> None]
  ELSE
    LET existing == IF current = None THEN Head(channel) ELSE current[1]
        channel1 == IF current = None THEN Tail(channel) ELSE channel
    IN
    IF ~(existing.start_block_number <= block_number)
    THEN [panic |-> "panic_start", current |-> current, channel |-> channel, res |-> None]
    ELSE IF channel1 = <<>>
    THEN [panic |-> "", current |-> Some(existing), channel |-> channel1, res |-> Some(existing)]
    ELSE
      LET next == Head(channel1) IN
      IF ~(block_number <= next.start_block_number)
      THEN [panic |-> "panic_incremental", current |-> current, channel |-> channel, res |-> None]
      ELSE IF block_number = next.start_block_number
      THEN [panic |-> "", current |-> Some(next), channel |-> channel1, res |-> Some(next)]
      ELSE [panic |-> "", current |-> Some(existing), channel |-> channel1, res |-> Some(existing)]

currently_evaluated_global_session_strict(current, channel, block_number) ==
  IF current = None /\ channel = <<>>
  THEN [panic |-> "panic_no_session", current |-> current, channel |-> channel, res |-> None]
  ELSE
    LET existing == IF current = None THEN Head(channel) ELSE current[1]
        channel1 == IF current = None THEN Tail(channel) ELSE channel
    IN
    IF ~(existing.start_block_number <= block_number)
    THEN [panic |-> "panic_start", current |-> current, channel |-> channel, res |-> None]
    ELSE IF channel1 = <<>>
    THEN [panic |-> "", current |-> Some(existing), channel |-> channel1, res |-> Some(existing)]
    ELSE
      LET next == Head(channel1) IN
      IF ~(block_number <= next.start_block_number)
      THEN [panic |-> "panic_incremental", current |-> current, channel |-> channel, res |-> None]
      ELSE IF block_number = next.start_block_number
      THEN [panic |-> "", current |-> Some(next), channel |-> Tail(channel1), res |-> Some(next)]
      ELSE [panic |-> "", current |-> Some(existing), channel |-> channel1, res |-> Some(existing)]

\* currently_evaluated_global_session: the non-strict, read-only lookup.
currently_evaluated_global_session_defaulting ==
  IF /\ GlobalSessionsChannel # <<>>
     /\ unwrap_or(LatestCosignedBlockNumber, 0) =
          Head(GlobalSessionsChannel).start_block_number - 1
  THEN Some(Head(GlobalSessionsChannel))
  ELSE CurrentlyEvaluatedGlobalSession
currently_evaluated_global_session ==
  IF /\ GlobalSessionsChannel # <<>>
     /\ LatestCosignedBlockNumber = Some(Head(GlobalSessionsChannel).start_block_number - 1)
  THEN Some(Head(GlobalSessionsChannel))
  ELSE CurrentlyEvaluatedGlobalSession

SupermajorityThresholdOfFault(total) == ((total * 17) \div 100) + 1
SupermajorityThresholdInclusive(total) == (total * 83) \div 100
SupermajorityThreshold(total) == ((total * 83) \div 100) + 1

\* The sets counted for a notable block: latest cosign exactly at the block.
NotableCosigners(global_session, block_number) ==
  {n \in SessionNetworks(global_session) :
     LET c == NetworksLatestCosignedBlockGet(global_session, n)
     IN  c # None /\ c[1].cosign.block_number = block_number}

\* The sets counted for a non-notable block: latest cosign at the block or later.
NonNotableCosignersAnyBlock(global_session, block_number) ==
  {n \in SessionNetworks(global_session) :
     NetworksLatestCosignedBlockGet(global_session, n) # None}
NonNotableCosigners(global_session, block_number) ==
  {n \in SessionNetworks(global_session) :
     LET c == NetworksLatestCosignedBlockGet(global_session, n)
     IN  c # None /\ c[1].cosign.block_number >= block_number}

\* lowest_common_block: the minimum over every stored latest cosign of the session.
lowest_common_block(global_session) ==
  LET present == {n \in SessionNetworks(global_session) :
                    NetworksLatestCosignedBlockGet(global_session, n) # None}
      numbers == {NetworksLatestCosignedBlockGet(global_session, n)[1].cosign.block_number :
                    n \in present}
  IN  IF present = {} THEN None
      ELSE Some(CHOOSE m \in numbers : \A k \in numbers : m <= k)

\* known_cosigned: whether the cached result covers the block.
known_cosigned(known, block_number) ==
  IF known # None THEN known[1] >= block_number ELSE FALSE

\* The local local_latest_cosigned of a run_iteration in progress.
IterationLatest ==
  IF eval_pc = "idle" THEN unwrap_or(LatestCosignedBlockNumber, 0)
  ELSE local_latest_cosigned
IterationKnown == IF eval_pc = "idle" THEN None ELSE known_cosign

\* The threshold is not met: request_notable_cosigns(global_session), then return
\* the error, which drops the transaction with the writes of the strict lookup.
ErrorOutcomeCommitted(strict) ==
  [result |-> "error", current |-> strict.current, channel |-> strict.channel,
   known |-> IterationKnown, request |-> Some(strict.res[1].id)]
ErrorOutcome(strict) ==
  [result |-> "error", current |-> CurrentlyEvaluatedGlobalSession,
   channel |-> GlobalSessionsChannel, known |-> IterationKnown,
   request |-> Some(strict.res[1].id)]

\* What one pass of the loop body does with the message at the head of BlockEvents.
EvaluateOutcome(msg) ==
  LET block_number == msg.block_number
      unchanged == [current |-> CurrentlyEvaluatedGlobalSession,
                    channel |-> GlobalSessionsChannel, known |-> IterationKnown,
                    request |-> None]
      strict == currently_evaluated_global_session_strict(
                  CurrentlyEvaluatedGlobalSession, GlobalSessionsChannel, block_number)
      session == strict.res[1].id
  IN
  IF block_number # IterationLatest + 1
  THEN [result |-> "panic_desync"] @@ unchanged
  ELSE IF msg.has_events = "No"
  THEN [result |-> "commit"] @@ unchanged
  ELSE IF msg.has_events = "NonNotable" /\ known_cosigned(IterationKnown, block_number)
  THEN [result |-> "commit"] @@ unchanged
  ELSE IF strict.panic # ""
  THEN [result |-> strict.panic] @@ unchanged
  ELSE
    LET weight_cosigned ==
          IF msg.has_events = "Notable"
          THEN SumStakes(strict.res[1].stakes, NotableCosigners(session, block_number))
          ELSE SumStakes(strict.res[1].stakes, NonNotableCosigners(session, block_number))
    IN
    IF weight_cosigned < SupermajorityThreshold(total_stake(strict.res[1]))
    THEN ErrorOutcome(strict)
    ELSE [result |-> "commit", current |-> strict.current, channel |-> strict.channel,
          known |-> IF msg.has_events = "Notable" THEN IterationKnown
                    ELSE lowest_common_block(session),
          request |-> None]

\* LatestCosignedBlockNumber::set(&mut txn, &block_number)
CosignedStale(block_number) == Some(IterationLatest)
Cosigned(block_number) == Some(block_number)

CosignedBlocksSend(channel, block_number, time_evaluated) ==
  Append(channel, [block_number |-> block_number, time_evaluated |-> time_evaluated])

\* One pass of the loop of CosignEvaluatorTask::run_iteration; the first pass of an
\* iteration also reads local_latest_cosigned and clears known_cosign.
EvaluateBlock ==
  /\ eval_pc \in {"idle", "loop"}
  /\ IF BlockEvents = <<>>
     THEN /\ eval_pc = "loop"
          /\ eval_pc' = "idle"
          /\ local_latest_cosigned' = 0
          /\ known_cosign' = None
          /\ UNCHANGED <<BlockEvents, GlobalSessionsChannel, LatestCosignedBlockNumber,
                         CurrentlyEvaluatedGlobalSession, CosignedBlocks>>
     ELSE LET msg == Head(BlockEvents)
              out == EvaluateOutcome(msg)
          IN
          IF out.result = "commit"
          THEN /\ eval_pc' = "loop"
               /\ local_latest_cosigned' = IterationLatest
               /\ known_cosign' = out.known
               /\ BlockEvents' = Tail(BlockEvents)
               /\ GlobalSessionsChannel' = out.channel
               /\ CurrentlyEvaluatedGlobalSession' = out.current
               /\ LatestCosignedBlockNumber' = Cosigned(msg.block_number)
               /\ CosignedBlocks' = CosignedBlocksSend(CosignedBlocks, msg.block_number, now)
          ELSE /\ eval_pc' = IF out.result = "error" THEN "idle" ELSE out.result
               /\ local_latest_cosigned' = 0
               /\ known_cosign' = None
               /\ GlobalSessionsChannel' = out.channel
               /\ CurrentlyEvaluatedGlobalSession' = out.current
               /\ UNCHANGED <<BlockEvents, LatestCosignedBlockNumber, CosignedBlocks>>
  /\ UNCHANGED <<callVars, oracleVars, ScanCosignFrom, intend_latest, IntendedCosigns, GlobalSessions,
                 LatestGlobalSessionIntended, GlobalSessionLastBlock, intakeVars, delayVars>>

\* ------------------------------------------------------------------ intake
ValidatorSetCosigner(network) == <<"ValidatorSet", network>>
ValidatorCosigner == <<"Validator", 0>>
ForgedSignature == <<0, 0>>

\* SignedCosign::verify_signature: the signature is the signer's, over this cosign.
verify_signature_any(signed_cosign, signer) == TRUE
verify_signature(signed_cosign, signer) == signed_cosign.signature = signer

\* The archive Cosigns[block_number] is read for membership only: a set.
ArchivedCount == Cardinality(UNION {Cosigns[b] : b \in DOMAIN Cosigns})

\* Whether the archive at the cosign's block number already holds the cosign.
PriorHandledNever(position, cosign) == FALSE
PriorHandled(position, cosign) == \E existing \in position : existing.cosign = cosign

\* Whether our finalized chain is shorter than the cosign's block number.
UnrecognizedNever(latest_block_number, block_number) == FALSE
Unrecognized(latest_block_number, block_number) == latest_block_number < block_number

\* Whether the cosign supersedes the one stored for the network.
SupersedesAlways(stored, block_number) == TRUE
Supersedes(stored, block_number) ==
  unwrap_or(IF stored = None THEN None ELSE Some(stored[1].cosign.block_number), 0) < block_number

\* Whether the set was prior faulty within the session.
PriorFaultyNever(faults, network) == FALSE
PriorFaulty(faults, network) ==
  \E i \in 1..Len(faults) : faults[i].cosign.cosigner = ValidatorSetCosigner(network)

\* The loop over the session's sets: running total_weight and weight_cosigned.
RECURSIVE FaultWeights(_, _, _, _, _)
FaultWeights(as_of, sets, faults, weight_cosigned, total_weight) ==
  IF sets = <<>> THEN [weight_cosigned |-> weight_cosigned, total_weight |-> total_weight]
  ELSE
    LET set == Head(sets)
        total1 == total_weight + total_allocated_stake(as_of, set[1])
        faulty == PriorFaulty(faults, set[1])
    IN  FaultWeights(as_of, Tail(sets), faults,
                     IF faulty THEN weight_cosigned + total1 ELSE weight_cosigned, total1)

FaultThreshold(total_weight) == (total_weight * 17) \div 100

\* self.serai.block_hash(block_number): the hash the node holds for a block it
\* has finalized, which is the local hash the intake compares a cosign with.
block_hash(block_number) ==
  IF block_number \in 1..latest_finalized_block THEN Some(BlockHashOf(block_number)) ELSE None

\* our_block_hash == cosign.block_hash
hash_matches_always(our_block_hash, their_block_hash) == TRUE
hash_matches(our_block_hash, their_block_hash) == our_block_hash = their_block_hash

\* global_session_start_block_number > LatestCosignedBlockNumber::get(&txn).unwrap_or(0)
future_global_session_never(global_session_start_block_number) == FALSE
future_global_session(global_session_start_block_number) ==
  global_session_start_block_number > unwrap_or(LatestCosignedBlockNumber, 0)

\* Faults::set(&mut txn, cosign.global_session, &faults)
FaultsUnset(global_session, faults) == Faults
FaultsSet(global_session, faults) == [Faults EXCEPT ![global_session] = faults]

\* Cosigning::intake_cosign: the value returned and the state committed, if any.
IntakeOutcome(signed_cosign) ==
  LET cosign == signed_cosign.cosign
      unchanged == [commit |-> FALSE, Cosigns |-> Cosigns,
                    NetworksLatestCosignedBlock |-> NetworksLatestCosignedBlock,
                    Faults |-> Faults, FaultedSession |-> FaultedSession]
      position == IF cosign.block_number \in DOMAIN Cosigns THEN Cosigns[cosign.block_number]
                  ELSE {}
      start == GlobalSessions[cosign.global_session][1]
      network == cosign.cosigner[2]
      keys == keys_for_network(SetsAsOf(start.hash), network)
      archived == [Cosigns EXCEPT ![cosign.block_number] = position \cup {signed_cosign}]
      our_block_hash == BlockHashOf(cosign.block_number)
      faults == Faults[cosign.global_session]
      faults1 == Append(faults, signed_cosign)
      weights == FaultWeights(SetsAsOf(start.hash), cosigning_sets(SetsAsOf(start.hash)), faults1, 0, 0)
  IN
  IF PriorHandled(position, cosign)
  THEN [result |-> "true"] @@ unchanged
  ELSE IF GlobalSessions[cosign.global_session] = None
  THEN [result |-> "true"] @@ unchanged
  ELSE IF cosign.cosigner[1] # "ValidatorSet"
  THEN [result |-> "false"] @@ unchanged
  ELSE IF keys = None
  THEN [result |-> "false"] @@ unchanged
  ELSE IF ~verify_signature(signed_cosign, keys[1].key)
  THEN [result |-> "false"] @@ unchanged
  ELSE IF Unrecognized(latest_finalized_block, cosign.block_number)
  THEN [result |-> "true"] @@ unchanged
  ELSE IF hash_matches(our_block_hash, cosign.block_hash)
  THEN
    IF future_global_session(start.number)
    THEN [result |-> "true"] @@ unchanged
    ELSE [result |-> "true", commit |-> TRUE, Cosigns |-> archived,
          NetworksLatestCosignedBlock |->
            IF Supersedes(NetworksLatestCosignedBlock[network], cosign.block_number)
            THEN [NetworksLatestCosignedBlock EXCEPT ![network] = Some(signed_cosign)]
            ELSE NetworksLatestCosignedBlock,
          Faults |-> Faults, FaultedSession |-> FaultedSession]
  ELSE
    IF PriorFaulty(faults, network)
    THEN [result |-> "true", commit |-> TRUE, Cosigns |-> archived,
          NetworksLatestCosignedBlock |-> NetworksLatestCosignedBlock,
          Faults |-> Faults, FaultedSession |-> FaultedSession]
    ELSE IF weights.total_weight = 0
    THEN [result |-> "panic"] @@ unchanged
    ELSE [result |-> "true", commit |-> TRUE, Cosigns |-> archived,
          NetworksLatestCosignedBlock |-> NetworksLatestCosignedBlock,
          Faults |-> FaultsSet(cosign.global_session, faults1),
          FaultedSession |->
            IF weights.weight_cosigned >= FaultThreshold(weights.total_weight)
            THEN Some(cosign.global_session) ELSE FaultedSession]

\* A cosign as the transport delivers it: with the finalized hash or another,
\* signed by the session's set for the network or forged.
SignedCosignOf(id, b, agrees, network, signed) ==
  [cosign |-> [global_session |-> id, block_number |-> b,
               block_hash |-> IF agrees THEN BlockHashOf(b) ELSE BadHash,
               cosigner |-> IF network = 0 THEN ValidatorCosigner
                            ELSE ValidatorSetCosigner(network)],
   signature |-> IF signed /\ \E vs \in id : vs[1] = network
                 THEN CHOOSE vs \in id : vs[1] = network
                 ELSE ForgedSignature]

SignedCosigns ==
  {SignedCosignOf(id, b, agrees, network, signed) :
     id \in AllSessionIds, b \in 1..MaxBlock, agrees \in BOOLEAN,
     network \in Networks \cup {0}, signed \in BOOLEAN}

\* An intake that would itself acknowledge the block of a cosign it stores.
IntakeAcknowledging ==
  /\ ArchivedCount < MaxCosigns
  /\ \E signed_cosign \in SignedCosigns :
       LET out == IntakeOutcome(signed_cosign) IN
       /\ out.commit
       /\ Cosigns' = out.Cosigns
       /\ NetworksLatestCosignedBlock' = out.NetworksLatestCosignedBlock
       /\ Faults' = out.Faults
       /\ FaultedSession' = out.FaultedSession
       /\ LatestCosignedBlockNumber' = Some(signed_cosign.cosign.block_number)
  /\ UNCHANGED <<callVars, oracleVars, intendVars, CurrentlyEvaluatedGlobalSession,
                 CosignedBlocks, eval_pc, local_latest_cosigned, known_cosign, delayVars>>

Intake ==
  /\ ArchivedCount < MaxCosigns
  /\ \E signed_cosign \in SignedCosigns :
       LET out == IntakeOutcome(signed_cosign) IN
       /\ out.commit
       /\ Cosigns' = out.Cosigns
       /\ NetworksLatestCosignedBlock' = out.NetworksLatestCosignedBlock
       /\ Faults' = out.Faults
       /\ FaultedSession' = out.FaultedSession
  /\ UNCHANGED <<callVars, oracleVars, intendVars, evalVars, delayVars>>

\* The cosign a validator set signs for an intent it was sent.
CosignOfIntent(set, intent) ==
  [cosign |-> [global_session |-> intent.global_session, block_number |-> intent.block_number,
               block_hash |-> intent.block_hash, cosigner |-> ValidatorSetCosigner(set[1])],
   signature |-> set]

\* intake_cosign of the cosign a set was asked for on IntendedCosigns.
IntakeIntended(set) ==
  /\ \E i \in 1..Len(IntendedCosigns[set]) :
       LET out == IntakeOutcome(CosignOfIntent(set, IntendedCosigns[set][i])) IN
       /\ out.commit
       /\ Cosigns' = out.Cosigns
       /\ NetworksLatestCosignedBlock' = out.NetworksLatestCosignedBlock
       /\ Faults' = out.Faults
       /\ FaultedSession' = out.FaultedSession
  /\ UNCHANGED <<callVars, oracleVars, intendVars, evalVars, delayVars>>

\* ------------------------------------------------------------------- delay
\* SystemTime::now().duration_since(time_valid).unwrap_or(Duration::ZERO)
SleepDuration(time_now, time_valid) ==
  IF time_now >= time_valid THEN time_now - time_valid ELSE 0

\* try_recv and the computation of the sleep; the transaction stays open.
DelayReceive ==
  /\ delay_pc = "idle"
  /\ CosignedBlocks # <<>>
  /\ LET time_valid == Head(CosignedBlocks).time_evaluated + ACKNOWLEDGEMENT_DELAY
     IN  delay_wake' = now + SleepDuration(now, time_valid)
  /\ delay_pc' = "sleep"
  /\ UNCHANGED <<callVars, oracleVars, intendVars, evalVars, intakeVars, LatestAcknowledgedBlockNumber>>

\* LatestCosignedBlockNumber::set(&mut txn, &block_number), of SubstrateCosignDelay
AcknowledgedNext(block_number) == Some(block_number + 1)
AcknowledgedPrevious(block_number) == Some(block_number - 1)
Acknowledged(block_number) == Some(block_number)

\* A Delay task that would set the evaluator's LatestCosignedBlockNumber, not
\* the one of its own SubstrateCosignDelay.
DelayAcknowledgeOfEvaluator ==
  /\ delay_pc = "sleep"
  /\ now >= delay_wake
  /\ LatestCosignedBlockNumber' = Acknowledged(Head(CosignedBlocks).block_number)
  /\ CosignedBlocks' = Tail(CosignedBlocks)
  /\ delay_pc' = "idle"
  /\ delay_wake' = 0
  /\ UNCHANGED <<callVars, oracleVars, intendVars, intakeVars, LatestAcknowledgedBlockNumber,
                 CurrentlyEvaluatedGlobalSession, eval_pc, local_latest_cosigned, known_cosign>>

\* The sleep is over: set the acknowledged block and commit.
DelayAcknowledge ==
  /\ delay_pc = "sleep"
  /\ now >= delay_wake
  /\ LatestAcknowledgedBlockNumber' = Acknowledged(Head(CosignedBlocks).block_number)
  /\ CosignedBlocks' = Tail(CosignedBlocks)
  /\ delay_pc' = "idle"
  /\ delay_wake' = 0
  /\ UNCHANGED <<callVars, oracleVars, intendVars, intakeVars, LatestCosignedBlockNumber,
                 CurrentlyEvaluatedGlobalSession, eval_pc, local_latest_cosigned, known_cosign>>

\* ----------------------------------------------------------------- restart
\* The Intend task is cancelled or crashes between two transactions, or within
\* one, which is then dropped uncommitted; the next run_iteration reads
\* ScanCosignFrom and the latest finalized block again.
RestartIntend ==
  /\ intend_latest # 0
  /\ intend_latest' = 0
  /\ UNCHANGED <<callVars, oracleVars, ScanCosignFrom, BlockEvents, GlobalSessionsChannel, IntendedCosigns,
                 GlobalSessions, LatestGlobalSessionIntended, GlobalSessionLastBlock,
                 evalVars, intakeVars, delayVars>>

\* The same for the Evaluate task, also after one of its panics: the locals of
\* the run_iteration are lost and the open transaction is dropped.
RestartEvaluate ==
  /\ eval_pc # "idle"
  /\ eval_pc' = "idle"
  /\ local_latest_cosigned' = 0
  /\ known_cosign' = None
  /\ UNCHANGED <<callVars, oracleVars, intendVars, intakeVars, delayVars, LatestCosignedBlockNumber,
                 CurrentlyEvaluatedGlobalSession, CosignedBlocks>>

\* ------------------------------------------------------------------ facade
\* Cosigning::latest_cosigned_block_number: Err(Faulted) or Ok(number).
Faulted == [ok |-> FALSE, number |-> 0]
Ok(number) == [ok |-> TRUE, number |-> number]
latest_cosigned_block_number_unchecked == Ok(unwrap_or(LatestCosignedBlockNumber, 0))
latest_cosigned_block_number_acknowledged ==
  IF FaultedSession # None THEN Faulted
  ELSE Ok(unwrap_or(LatestAcknowledgedBlockNumber, 0))
latest_cosigned_block_number ==
  IF FaultedSession # None THEN Faulted
  ELSE Ok(unwrap_or(LatestCosignedBlockNumber, 0))

\* The cosigns stored for the networks, in NETWORKS order.
StoredCosigns ==
  LET stored == SelectSeq([i \in 1..Len(NETWORKS) |-> NetworksLatestCosignedBlock[NETWORKS[i]]],
                          LAMBDA cosign : cosign # None)
  IN  [i \in 1..Len(stored) |-> stored[i][1]]

\* Cosigning::cosigns_to_rebroadcast
cosigns_to_rebroadcast ==
  IF FaultedSession # None
  THEN Faults[FaultedSession[1]] \o
         SelectSeq(StoredCosigns,
                   LAMBDA cosign : cosign.cosign.global_session = FaultedSession[1])
  ELSE StoredCosigns

\* ----------------------------------------------------------- specification
\* The database and the tasks at Cosigning::spawn over an empty database.
Spawned ==
  /\ chain = <<>>
  /\ now = 0
  /\ ScanCosignFrom = 1
  /\ intend_latest = 0
  /\ BlockEvents = <<>>
  /\ GlobalSessionsChannel = <<>>
  /\ IntendedCosigns = [vs \in ValidatorSets |-> <<>>]
  /\ GlobalSessions = [id \in AllSessionIds |-> None]
  /\ LatestGlobalSessionIntended = None
  /\ GlobalSessionLastBlock = [id \in AllSessionIds |-> None]
  /\ LatestCosignedBlockNumber = None
  /\ CurrentlyEvaluatedGlobalSession = None
  /\ CosignedBlocks = <<>>
  /\ eval_pc = "idle"
  /\ local_latest_cosigned = 0
  /\ known_cosign = None
  /\ Cosigns = [b \in 1..MaxBlock |-> {}]
  /\ NetworksLatestCosignedBlock = [n \in Networks |-> None]
  /\ Faults = [id \in AllSessionIds |-> <<>>]
  /\ FaultedSession = None
  /\ LatestAcknowledgedBlockNumber = None
  /\ delay_pc = "idle"
  /\ delay_wake = 0

Init ==
  /\ Spawned
  /\ args = <<>>
  /\ ret = None

Next ==
  \/ Finalize
  \/ Tick
  \/ IntendBlock
  \/ EvaluateBlock
  \/ Intake
  \/ DelayReceive
  \/ DelayAcknowledge

Spec == Init /\ [][Next]_vars

\* The Intend and Evaluate tasks with the intake, without the clock and the
\* Delay task: those write only now, LatestAcknowledgedBlockNumber, the head of
\* CosignedBlocks and the Delay task's own position, none of which Intend,
\* Evaluate or the intake reads.
CoreNext ==
  \/ Finalize
  \/ IntendBlock
  \/ EvaluateBlock
  \/ Intake

SpecCore == Init /\ [][CoreNext]_vars

\* The tasks and the clock without the intake: the evaluator then cosigns only
\* blocks that need no cosign.
DelayNext ==
  \/ Finalize
  \/ Tick
  \/ IntendBlock
  \/ EvaluateBlock
  \/ DelayReceive
  \/ DelayAcknowledge

SpecDelay == Init /\ [][DelayNext]_vars

\* The same with the clock advancing and the Delay task scheduled again as long
\* as it can make progress.
SpecDelayFair ==
  /\ SpecDelay
  /\ WF_vars(Tick)
  /\ WF_vars(DelayReceive)
  /\ WF_vars(DelayAcknowledge)

\* The Intend and Evaluate tasks with the intake of the cosigns asked for, every
\* one of them scheduled again as long as it can make progress.
IntendedNext ==
  \/ Finalize
  \/ IntendBlock
  \/ EvaluateBlock
  \/ \E set \in ValidatorSets : IntakeIntended(set)

SpecIntended ==
  /\ Init /\ [][IntendedNext]_vars
  /\ WF_vars(IntendBlock)
  /\ WF_vars(EvaluateBlock)
  /\ \A set \in ValidatorSets : WF_vars(IntakeIntended(set))

\* The Intend and Evaluate tasks with the intake, each task cancelled and run
\* again at any point.
RestartNext ==
  \/ Finalize
  \/ IntendBlock
  \/ EvaluateBlock
  \/ Intake
  \/ RestartIntend
  \/ RestartEvaluate

SpecRestart == Init /\ [][RestartNext]_vars

\* The threshold check of the evaluator on its own, for every weight and total
\* stake up to MaxStake.
ThresholdInit ==
  /\ Spawned
  /\ args \in [weight_cosigned : 0..MaxStake, total_stake : 0..MaxStake]
  /\ ret = None

\* !(weight_cosigned < (((total_stake * 83) / 100) + 1))
SupermajorityCheck ==
  /\ ret = None
  /\ ret' = Some(~(args.weight_cosigned < SupermajorityThreshold(args.total_stake)))
  /\ UNCHANGED <<args, oracleVars, intendVars, evalVars, intakeVars, delayVars>>

SpecThreshold == ThresholdInit /\ [][SupermajorityCheck]_vars

\* A caller of the non-strict lookup, which reads through a getter: it returns
\* the session and writes nothing.
NonStrictLookup ==
  /\ ret' = Some(currently_evaluated_global_session)
  /\ ret' # ret
  /\ UNCHANGED <<args, oracleVars, intendVars, evalVars, intakeVars, delayVars>>

\* The Intend and Evaluate tasks with the intake of the cosigns asked for, and
\* the non-strict lookup called at any point.
LookupNext ==
  \/ Finalize
  \/ IntendBlock
  \/ EvaluateBlock
  \/ \E set \in ValidatorSets : IntakeIntended(set)
  \/ NonStrictLookup

SpecLookup == Init /\ [][LookupNext]_vars

\* The Intend and Evaluate tasks with the intake, over a chain on which every
\* key-generation event declares sets no earlier block declared.
KeyGenNext ==
  \/ FinalizeKeyGen
  \/ IntendBlock
  \/ EvaluateBlock
  \/ Intake

SpecKeyGen == Init /\ [][KeyGenNext]_vars

\* A run_iteration of Intend call by call: args holds its locals
\* start_block_number and latest_block_number, ret the value it returned.
Err == [ok |-> FALSE]

\* Ok(start_block_number <= latest_block_number)
made_progress_beyond_start(start, latest) == start < latest
made_progress(start, latest) == start <= latest

\* The block the next run_iteration starts from after an error at a block: the
\* transaction of each pass is its own, so the passes before it are committed
\* and its own is dropped.
resume_block_number_of_iteration(start, block_number) == start
resume_block_number(start, block_number) == block_number

\* run_iteration is called: ScanCosignFrom and latest_finalized_block are read.
IntendCall ==
  /\ args = <<>>
  /\ intend_latest = 0
  /\ args' = [start_block_number |-> start_block_number,
              latest_block_number |-> latest_finalized_block]
  /\ ret' = None
  /\ intend_latest' = IF start_block_number <= latest_finalized_block
                      THEN latest_finalized_block ELSE 0
  /\ UNCHANGED <<oracleVars, ScanCosignFrom, BlockEvents, GlobalSessionsChannel,
                 IntendedCosigns, GlobalSessions, LatestGlobalSessionIntended,
                 GlobalSessionLastBlock, evalVars, intakeVars, delayVars>>

\* latest_finalized_block fails: the error is returned before any pass.
IntendCallFails ==
  /\ args = <<>>
  /\ intend_latest = 0
  /\ ret' = Some(Err)
  /\ UNCHANGED <<args, oracleVars, intendVars, evalVars, intakeVars, delayVars>>

\* One pass of the loop of the called run_iteration.
IntendPass ==
  /\ args # <<>>
  /\ start_block_number <= args.latest_block_number
  /\ IntendBlock

\* A call of the node fails in the pass of a block: the iteration returns the
\* error and the transaction of the pass is dropped.
IntendPassFails ==
  /\ args # <<>>
  /\ start_block_number <= args.latest_block_number
  /\ ScanCosignFrom' = resume_block_number(args.start_block_number, start_block_number)
  /\ intend_latest' = 0
  /\ args' = <<>>
  /\ ret' = Some(Err)
  /\ UNCHANGED <<oracleVars, BlockEvents, GlobalSessionsChannel, IntendedCosigns,
                 GlobalSessions, LatestGlobalSessionIntended, GlobalSessionLastBlock,
                 evalVars, intakeVars, delayVars>>

\* The loop is over: Ok(start_block_number <= latest_block_number).
IntendReturn ==
  /\ args # <<>>
  /\ start_block_number > args.latest_block_number
  /\ args' = <<>>
  /\ ret' = Some(Ok(made_progress(args.start_block_number, args.latest_block_number)))
  /\ UNCHANGED <<oracleVars, intendVars, evalVars, intakeVars, delayVars>>

IterationNext ==
  \/ Finalize
  \/ IntendCall
  \/ IntendCallFails
  \/ IntendPass
  \/ IntendPassFails
  \/ IntendReturn

\* The thresholds in unsigned integers of WordBits bits (u64 in the program):
\* a product that does not fit wraps, or panics in a build with overflow checks.
wrapping_mul_narrow(a, b) == (a * b) % (2 ^ (WordBits - 1))
wrapping_mul(a, b) == (a * b) % (2 ^ WordBits)
overflows(a, b) == a * b >= 2 ^ WordBits

\* ((total_stake * 83) / 100) + 1 and (total_weight * 17) / 100 in that width.
ThresholdsOfWidth(total, overflow_checks) ==
  IF overflow_checks /\ (overflows(total, 83) \/ overflows(total, 17))
  THEN [panic |-> TRUE, supermajority |-> 0, fault |-> 0]
  ELSE [panic |-> FALSE,
        supermajority |-> (wrapping_mul(total, 83) \div 100) + 1,
        fault |-> wrapping_mul(total, 17) \div 100]

\* The thresholds on their own, for every total stake of the width and either
\* build.
WidthInit ==
  /\ Spawned
  /\ args \in [total_stake : 0..(2 ^ WordBits - 1), overflow_checks : BOOLEAN]
  /\ ret = None

ThresholdsComputed ==
  /\ ret = None
  /\ ret' = Some(ThresholdsOfWidth(args.total_stake, args.overflow_checks))
  /\ UNCHANGED <<args, oracleVars, intendVars, evalVars, intakeVars, delayVars>>

SpecWidth == WidthInit /\ [][ThresholdsComputed]_vars

SpecIteration == Init /\ [][IterationNext]_vars

\* The tasks and the clock with the intake of the cosigns asked for.
DelayIntakeNext ==
  \/ DelayNext
  \/ \E set \in ValidatorSets : IntakeIntended(set)

SpecDelayIntake == Init /\ [][DelayIntakeNext]_vars

\* ------------------------------------------------------------------ claims
\* The sets and stakes a session id stands for, and the stake of the networks of
\* a session whose stored latest cosign is one of
\* that session and satisfies the given condition on its block number.
SessionSets(global_session) ==
  [n \in Networks |->
     IF \E vs \in global_session : vs[1] = n
     THEN (CHOOSE vs \in global_session : vs[1] = n)[2] ELSE 0]

StakesOfSession(global_session) ==
  [n \in Networks |-> total_allocated_stake(SessionSets(global_session), n)]

StoredCosign(global_session, network) ==
  /\ NetworksLatestCosignedBlock[network] # None
  /\ NetworksLatestCosignedBlock[network][1].cosign.global_session = global_session

StakeCosignedExactly(global_session, b) ==
  SumStakes(StakesOfSession(global_session), {n \in Networks :
               /\ \E vs \in global_session : vs[1] = n
               /\ StoredCosign(global_session, n)
               /\ NetworksLatestCosignedBlock[n][1].cosign.block_number = b})

StakeCosignedAtLeast(global_session, b) ==
  SumStakes(StakesOfSession(global_session), {n \in Networks :
               /\ \E vs \in global_session : vs[1] = n
               /\ StoredCosign(global_session, n)
               /\ NetworksLatestCosignedBlock[n][1].cosign.block_number >= b})

StakeOfSession(global_session) ==
  SumStakes(StakesOfSession(global_session),
            {n \in Networks : \E vs \in global_session : vs[1] = n})

\* The global session current at block b: the one declared by the latest block
\* at or before b with a key-generation event.
SessionCurrentAt(b) ==
  LET starts == {k \in 1..b : chain[k].key_gen}
      start == CHOOSE k \in starts : \A j \in starts : j <= k
  IN  GlobalSessionId(cosigning_sets(chain[start].sets))

\* C1: LatestCosignedBlockNumber never decreases, and every step that changes it
\* takes it from n (0 when unset) to exactly n + 1.
C1_CosignedAdvancesByOne ==
  [][LatestCosignedBlockNumber' # LatestCosignedBlockNumber =>
       /\ LatestCosignedBlockNumber' # None
       /\ LatestCosignedBlockNumber'[1] = unwrap_or(LatestCosignedBlockNumber, 0) + 1]_vars

C1_Witness == LatestCosignedBlockNumber = Some(2)

\* C2: the evaluator's assertion that the received block number is the latest
\* cosigned block number plus one holds for every message it receives, also for a
\* message consumed later in the same run_iteration.
C2_AssertionHolds == eval_pc # "panic_desync"

\* C3: LatestCosignedBlockNumber advances to a Notable block b only when the
\* stake of the sets of the strictly looked up session whose stored latest cosign
\* of that session is exactly at b is at least floor(total_stake*83/100)+1.
C3_NotableNeedsSupermajority ==
  [][(/\ LatestCosignedBlockNumber' # LatestCosignedBlockNumber
      /\ LatestCosignedBlockNumber' # None
      /\ has_events_sent(LatestCosignedBlockNumber'[1]) = "Notable")
     => LET b == LatestCosignedBlockNumber'[1]
            session == CurrentlyEvaluatedGlobalSession'[1].id
        IN  /\ CurrentlyEvaluatedGlobalSession' # None
            /\ StakeCosignedExactly(session, b) >= ((StakeOfSession(session) * 83) \div 100) + 1]_vars

C3_Witness ==
  /\ LatestCosignedBlockNumber # None
  /\ has_events_sent(LatestCosignedBlockNumber[1]) = "Notable"

FaultersStake(global_session, faults) ==
  SumStakes(StakesOfSession(global_session),
            {n \in Networks :
               \E i \in 1..Len(faults) : faults[i].cosign.cosigner = ValidatorSetCosigner(n)})

C5_FaultWeightIsStakeOfFaulters ==
  [][\A id \in AllSessionIds :
       Faults'[id] # Faults[id] =>
         ((FaultedSession' = Some(id)) <=>
            \/ FaultedSession = Some(id)
            \/ FaultersStake(id, Faults'[id]) >= (StakeOfSession(id) * 17) \div 100)]_vars

\* C6: once FaultedSession is set it stays set, and latest_cosigned_block_number()
\* returns Faulted in every state in which it is set.
C6_FaultIsTerminal ==
  /\ [](FaultedSession # None => latest_cosigned_block_number = Faulted)
  /\ [][FaultedSession # None => FaultedSession' # None]_vars

C6_Witness ==
  /\ FaultedSession # None
  /\ LatestCosignedBlockNumber # None

\* C7: LatestAcknowledgedBlockNumber is set to a block received with time_evaluated
\* only at a time >= time_evaluated + 70 seconds.
C7_AcknowledgedAfterDelay ==
  [][LatestAcknowledgedBlockNumber' # LatestAcknowledgedBlockNumber =>
       now' >= Head(CosignedBlocks).time_evaluated + 70]_vars

\* C8: LatestAcknowledgedBlockNumber <= LatestCosignedBlockNumber in every state.
C8_AcknowledgedAtMostCosigned ==
  unwrap_or(LatestAcknowledgedBlockNumber, 0) <= unwrap_or(LatestCosignedBlockNumber, 0)

C8_Witness ==
  /\ LatestAcknowledgedBlockNumber = Some(2)
  /\ LatestCosignedBlockNumber = Some(2)

\* C9: the cosign stored for a network is replaced only by a cosign with a
\* strictly greater block number, so per (session, network) the stored block
\* number never decreases.
C9_StoredBlockNumberIncreases ==
  [][\A n \in Networks :
       NetworksLatestCosignedBlock'[n] # NetworksLatestCosignedBlock[n] =>
         /\ NetworksLatestCosignedBlock'[n] # None
         /\ NetworksLatestCosignedBlock[n] # None =>
              NetworksLatestCosignedBlock'[n][1].cosign.block_number >
                NetworksLatestCosignedBlock[n][1].cosign.block_number]_vars

C9_Witness ==
  \E n \in Networks :
    /\ NetworksLatestCosignedBlock[n] # None
    /\ NetworksLatestCosignedBlock[n][1].cosign.block_number = 2
    /\ \E archived \in Cosigns[1] :
         /\ archived.cosign.cosigner = ValidatorSetCosigner(n)
         /\ archived.cosign.block_hash = BlockHashOf(1)

\* C10: Faults[session] holds at most one signed cosign per cosigner.
C10_OneFaultPerCosigner ==
  \A id \in AllSessionIds :
    \A i, j \in 1..Len(Faults[id]) :
      Faults[id][i].cosign.cosigner = Faults[id][j].cosign.cosigner => i = j

C10_Witness ==
  \E id \in AllSessionIds :
    /\ Len(Faults[id]) = 1
    /\ \E b \in 1..MaxBlock : \E archived \in Cosigns[b] :
         /\ archived.cosign.global_session = id
         /\ archived.cosign.cosigner = Faults[id][1].cosign.cosigner
         /\ archived.cosign.block_hash # BlockHashOf(b)
         /\ archived # Faults[id][1]

\* Whether a call of intake_cosign leaves every durable index as it is.
IntakeLeavesState(out) ==
  /\ ~out.commit
  /\ out.Cosigns = Cosigns
  /\ out.NetworksLatestCosignedBlock = NetworksLatestCosignedBlock
  /\ out.Faults = Faults
  /\ out.FaultedSession = FaultedSession

\* C11: intake_cosign called again with a cosign it already took in (one held by
\* the archive) returns true without committing, and leaves NetworksLatestCosignedBlock,
\* Faults, FaultedSession and the archive unchanged.
C11_ReintakeIsIdempotent ==
  \A b \in DOMAIN Cosigns : \A archived \in Cosigns[b] :
    \A signature \in {archived.signature, ForgedSignature} :
      LET out == IntakeOutcome([archived EXCEPT !.signature = signature])
      IN  out.result = "true" /\ IntakeLeavesState(out)

C11_Witness ==
  /\ \E n \in Networks : NetworksLatestCosignedBlock[n] # None
  /\ \E id \in AllSessionIds : Faults[id] # <<>>
  /\ ArchivedCount = 2

\* The cosigner of a cosign of a recognized session, not yet in the archive, is
\* not a validator set, has no key in the session, or did not sign the cosign.
InvalidCosign(signed_cosign) ==
  LET cosign == signed_cosign.cosign
      network == cosign.cosigner[2]
  IN  /\ GlobalSessions[cosign.global_session] # None
      /\ \A archived \in Cosigns[cosign.block_number] : archived.cosign # cosign
      /\ \/ cosign.cosigner[1] # "ValidatorSet"
         \/ ~(\E vs \in cosign.global_session : vs[1] = network)
         \/ ~(signed_cosign.signature \in cosign.global_session)
         \/ signed_cosign.signature[1] # network

\* C12: intake_cosign returns false exactly for a cosign of a recognized session,
\* not yet archived, whose cosigner is not a validator set, has no key in the
\* session, or whose signature does not verify; such a call changes no durable state.
C12_InvalidChangesNothing ==
  [](\A signed_cosign \in SignedCosigns :
       LET out == IntakeOutcome(signed_cosign)
       IN  /\ out.result = "false" <=> InvalidCosign(signed_cosign)
           /\ out.result = "false" => IntakeLeavesState(out))

C12_Witness ==
  /\ ArchivedCount > 0
  /\ \E id \in AllSessionIds, b \in 1..MaxBlock :
       /\ IntakeOutcome(SignedCosignOf(id, b, TRUE, 0, TRUE)).result = "false"
       /\ IntakeOutcome(SignedCosignOf(id, b, TRUE, Unkeyed, TRUE)).result = "false"
       /\ IntakeOutcome(SignedCosignOf(id, b, TRUE, 1, FALSE)).result = "false"

\* A cosign of the currently evaluated session, not yet in the archive, numbered
\* below the session's start block or above its last block when that is set.
OutOfWindow(signed_cosign) ==
  LET cosign == signed_cosign.cosign
      current == currently_evaluated_global_session
  IN  /\ current # None
      /\ cosign.global_session = current[1].id
      /\ \A archived \in Cosigns[cosign.block_number] : archived.cosign # cosign
      /\ \/ cosign.block_number < current[1].start_block_number
         \/ /\ GlobalSessionLastBlock[cosign.global_session] # None
            /\ cosign.block_number > GlobalSessionLastBlock[cosign.global_session][1]

\* C13: intake_cosign returns false for a cosign of the currently evaluated session
\* whose block number is below the session's start block number, or above
\* GlobalSessionLastBlock of the session when set, and stores it neither in
\* NetworksLatestCosignedBlock nor in Faults.
C13_OutOfWindowIsInvalid ==
  \A signed_cosign \in SignedCosigns :
    OutOfWindow(signed_cosign) =>
      /\ IntakeOutcome(signed_cosign).result = "false"
      /\ IntakeOutcome(signed_cosign).NetworksLatestCosignedBlock = NetworksLatestCosignedBlock
      /\ IntakeOutcome(signed_cosign).Faults = Faults

\* A cosign whose global session is not the one the non-strict lookup returns.
OtherSession(signed_cosign) ==
  \/ currently_evaluated_global_session = None
  \/ signed_cosign.cosign.global_session # currently_evaluated_global_session[1].id

\* C14: intake_cosign returns true and changes no durable state for a cosign whose
\* global session is not the currently evaluated session (unknown, past or
\* future), whether or not its block hash agrees with ours; stated here for the
\* cosigns that are not yet archived and whose signature verifies.
C14_OtherSessionChangesNothing ==
  \A signed_cosign \in SignedCosigns :
    (/\ OtherSession(signed_cosign)
     /\ signed_cosign.signature \in signed_cosign.cosign.global_session
     /\ signed_cosign.cosign.cosigner = ValidatorSetCosigner(signed_cosign.signature[1])) =>
      /\ IntakeOutcome(signed_cosign).result = "true"
      /\ IntakeLeavesState(IntakeOutcome(signed_cosign))

\* C15: intake_cosign returns true and changes no durable state for a cosign whose
\* block number has not yet been locally observed as finalized.
C15_UnobservedIsValid ==
  \A signed_cosign \in SignedCosigns :
    signed_cosign.cosign.block_number > latest_finalized_block =>
      /\ IntakeOutcome(signed_cosign).result = "true"
      /\ IntakeLeavesState(IntakeOutcome(signed_cosign))

\* C15, amended: for a cosign whose block number is not yet finalized locally,
\* intake_cosign changes no durable state; it returns false when the cosign is of
\* a recognized session and its cosigner is not a validator set with a key in the
\* session or its signature does not verify, and true otherwise.
C15_UnobservedChangesNothing ==
  \A signed_cosign \in SignedCosigns :
    signed_cosign.cosign.block_number > latest_finalized_block =>
      LET out == IntakeOutcome(signed_cosign)
      IN  /\ out.result = IF InvalidCosign(signed_cosign) THEN "false" ELSE "true"
          /\ IntakeLeavesState(out)

C15_Witness ==
  /\ latest_finalized_block < MaxBlock
  /\ ArchivedCount > 0
  /\ \E id \in AllSessionIds :
       /\ GlobalSessions[id] # None
       /\ GlobalSessions[id][1].number <= unwrap_or(LatestCosignedBlockNumber, 0)
       /\ IntakeOutcome(SignedCosignOf(id, latest_finalized_block + 1, TRUE, 1, TRUE)).result = "true"
       /\ IntakeOutcome(SignedCosignOf(id, latest_finalized_block + 1, FALSE, 1, TRUE)).result = "true"
       /\ IntakeOutcome(SignedCosignOf(id, latest_finalized_block + 1, TRUE, 1, FALSE)).result = "false"

\* Block b was classified by Intend as needing cosigns, and every block before it
\* is cosigned.
AwaitsCosigns(b) ==
  /\ ScanCosignFrom > b
  /\ has_events_sent(b) # "No"
  /\ unwrap_or(LatestCosignedBlockNumber, 0) = b - 1

\* C16: once Intend has classified a block Notable or NonNotable and every earlier
\* block is cosigned, with every set that was sent the intent delivering the
\* cosign of the intent to the intake and the tasks scheduled fairly, Evaluate
\* eventually sets LatestCosignedBlockNumber to the block.
C16_IntendedCosignsSuffice ==
  \A b \in 1..MaxBlock :
    AwaitsCosigns(b) ~> (unwrap_or(LatestCosignedBlockNumber, 0) >= b)

EvaluatesCosigns ==
  /\ eval_pc \in {"idle", "loop"}
  /\ BlockEvents # <<>>
  /\ Head(BlockEvents).block_number = IterationLatest + 1
  /\ Head(BlockEvents).has_events # "No"
  /\ ~(Head(BlockEvents).has_events = "NonNotable"
        /\ known_cosigned(IterationKnown, Head(BlockEvents).block_number))
  /\ currently_evaluated_global_session_strict(
       CurrentlyEvaluatedGlobalSession, GlobalSessionsChannel,
       Head(BlockEvents).block_number).panic = ""

ResolvedSession ==
  currently_evaluated_global_session_strict(
    CurrentlyEvaluatedGlobalSession, GlobalSessionsChannel,
    Head(BlockEvents).block_number).res[1].id

ThresholdNotMet ==
  LET b == Head(BlockEvents).block_number
      cosigned == IF Head(BlockEvents).has_events = "Notable"
                  THEN StakeCosignedExactly(ResolvedSession, b)
                  ELSE StakeCosignedAtLeast(ResolvedSession, b)
  IN  cosigned * 100 <= StakeOfSession(ResolvedSession) * 83

\* C18: when the supermajority threshold is not met for a Notable or NonNotable
\* block, the evaluator's pass requests the resolved session's cosigns and returns
\* an error with the transaction dropped: LatestCosignedBlockNumber,
\* CurrentlyEvaluatedGlobalSession and the GlobalSessions channel keep their
\* values and the message stays at the head of BlockEvents.
C18_ThresholdFailureRollsBack ==
  /\ [](EvaluatesCosigns =>
          /\ EvaluateOutcome(Head(BlockEvents)).result = "error" <=> ThresholdNotMet
          /\ ThresholdNotMet =>
               /\ EvaluateOutcome(Head(BlockEvents)).request = Some(ResolvedSession)
               /\ EvaluateOutcome(Head(BlockEvents)).current = CurrentlyEvaluatedGlobalSession
               /\ EvaluateOutcome(Head(BlockEvents)).channel = GlobalSessionsChannel)
  /\ [][(EvaluatesCosigns /\ ThresholdNotMet /\ ScanCosignFrom' = ScanCosignFrom) =>
          UNCHANGED <<LatestCosignedBlockNumber, CurrentlyEvaluatedGlobalSession,
                      GlobalSessionsChannel, BlockEvents>>]_vars

C18_Witness ==
  /\ EvaluatesCosigns
  /\ ThresholdNotMet
  /\ \E n \in Networks : StoredCosign(ResolvedSession, n)
  /\ CurrentlyEvaluatedGlobalSession = None

\* C19: Intend emits on BlockEvents the blocks ScanCosignFrom, ScanCosignFrom + 1,
\* ... up to the latest finalized block, each once and in order: the channel holds
\* the consecutive numbers after those the evaluator consumed, every step that
\* emits appends the block ScanCosignFrom and advances ScanCosignFrom by one, and
\* ScanCosignFrom is always the last emitted block number plus one.
C19_BlockEventsInOrder ==
  /\ [](/\ \A i \in 1..Len(BlockEvents) :
            BlockEvents[i].block_number = unwrap_or(LatestCosignedBlockNumber, 0) + i
        /\ ScanCosignFrom = unwrap_or(LatestCosignedBlockNumber, 0) + Len(BlockEvents) + 1
        /\ ScanCosignFrom <= latest_finalized_block + 1)
  /\ [][(ScanCosignFrom' # ScanCosignFrom \/ Len(BlockEvents') > Len(BlockEvents)) =>
          /\ ScanCosignFrom' = ScanCosignFrom + 1
          /\ Len(BlockEvents') = Len(BlockEvents) + 1
          /\ SubSeq(BlockEvents', 1, Len(BlockEvents)) = BlockEvents
          /\ BlockEvents'[Len(BlockEvents')].block_number = ScanCosignFrom]_vars

C19_Witness ==
  /\ ScanCosignFrom = MaxBlock + 1
  /\ LatestCosignedBlockNumber = Some(1)
  /\ Len(BlockEvents) = MaxBlock - 1

\* The session a block with a key-generation event declares, as sent on the channel.
DeclaredSession(block_number) ==
  GlobalSessionInfo(GlobalSessionId(cosigning_sets(SetsAsOf(BlockHashOf(block_number)))),
                    block_number)

\* C20: the step of Intend that emits the BlockEvents message of a block with a
\* key-generation event appends the session the block declares to the
\* GlobalSessions channel, once, and no other step appends to it; the channel
\* holds strictly increasing start block numbers, all above that of the session
\* the evaluator holds, and the evaluator takes the sessions from its head, each
\* with a greater start block number than the last.
C20_SessionsInStartOrder ==
  /\ [][(ScanCosignFrom' # ScanCosignFrom =>
           /\ BlockEvents'[Len(BlockEvents')].block_number = ScanCosignFrom
           /\ GlobalSessionsChannel' =
                IF chain[ScanCosignFrom].key_gen
                THEN Append(GlobalSessionsChannel, DeclaredSession(ScanCosignFrom))
                ELSE GlobalSessionsChannel)
        /\ (Len(GlobalSessionsChannel') > Len(GlobalSessionsChannel) =>
              ScanCosignFrom' # ScanCosignFrom)]_vars
  /\ [](/\ \A i, j \in 1..Len(GlobalSessionsChannel) :
            i < j => GlobalSessionsChannel[i].start_block_number <
                       GlobalSessionsChannel[j].start_block_number
        /\ CurrentlyEvaluatedGlobalSession # None =>
            \A i \in 1..Len(GlobalSessionsChannel) :
              CurrentlyEvaluatedGlobalSession[1].start_block_number <
                GlobalSessionsChannel[i].start_block_number)
  /\ [][CurrentlyEvaluatedGlobalSession' # CurrentlyEvaluatedGlobalSession =>
          /\ CurrentlyEvaluatedGlobalSession' # None
          /\ (CurrentlyEvaluatedGlobalSession # None =>
                CurrentlyEvaluatedGlobalSession[1].start_block_number <
                  CurrentlyEvaluatedGlobalSession'[1].start_block_number)
          /\ \E k \in 1..Len(GlobalSessionsChannel) :
               /\ GlobalSessionsChannel[k] = CurrentlyEvaluatedGlobalSession'[1]
               /\ GlobalSessionsChannel' =
                    SubSeq(GlobalSessionsChannel, k + 1, Len(GlobalSessionsChannel))]_vars

C20_Witness ==
  /\ CurrentlyEvaluatedGlobalSession # None
  /\ CurrentlyEvaluatedGlobalSession[1].start_block_number = 2
  /\ GlobalSessionsChannel = <<>>

\* The durable state: every index and channel of the database.
durableVars ==
  <<ScanCosignFrom, BlockEvents, GlobalSessionsChannel, IntendedCosigns, GlobalSessions,
    LatestGlobalSessionIntended, GlobalSessionLastBlock, LatestCosignedBlockNumber,
    CurrentlyEvaluatedGlobalSession, CosignedBlocks, intakeVars, LatestAcknowledgedBlockNumber>>

\* C21: with either task cancelled and restarted at any point, no block is
\* handled twice: every BlockEvents message sent is for the block ScanCosignFrom,
\* which the same transaction moves past it and which never moves back, so no
\* set is sent two intents for a block; every transaction of Evaluate consumes
\* the message it cosigns, so no block is cosigned twice; and a restart changes
\* no durable state.
C21_RestartHandlesNoBlockTwice ==
  /\ [][/\ ScanCosignFrom' >= ScanCosignFrom
        /\ Len(BlockEvents') > Len(BlockEvents) =>
             /\ BlockEvents'[Len(BlockEvents')].block_number = ScanCosignFrom
             /\ ScanCosignFrom' = ScanCosignFrom + 1
        /\ CosignedBlocks' # CosignedBlocks =>
             /\ BlockEvents # <<>>
             /\ BlockEvents' = Tail(BlockEvents)
             /\ CosignedBlocks'[Len(CosignedBlocks')].block_number = Head(BlockEvents).block_number
        /\ (RestartIntend \/ RestartEvaluate) => UNCHANGED durableVars]_vars
  /\ [](\A set \in ValidatorSets : \A i, j \in 1..Len(IntendedCosigns[set]) :
          IntendedCosigns[set][i].block_number = IntendedCosigns[set][j].block_number => i = j)
  /\ [](\A i, j \in 1..Len(CosignedBlocks) :
          CosignedBlocks[i].block_number = CosignedBlocks[j].block_number => i = j)

\* Both tasks have committed transactions, Intend is between two run_iterations
\* and Evaluate within one, which a restart may interrupt.
C21_Witness ==
  /\ intend_latest = 0
  /\ eval_pc = "loop"
  /\ local_latest_cosigned = 1
  /\ LatestCosignedBlockNumber = Some(2)
  /\ ScanCosignFrom = 3
  /\ \E set \in ValidatorSets : IntendedCosigns[set] # <<>>

\* C22: with FaultedSession set, cosigns_to_rebroadcast returns every entry of
\* Faults of the faulted session and every stored latest cosign of that session,
\* and no cosign of another session; with no fault it returns at most one cosign
\* per network, each of the session LatestGlobalSessionIntended.
C22_RebroadcastOfOneSession ==
  LET cosigns == cosigns_to_rebroadcast
      returned == {cosigns[i] : i \in 1..Len(cosigns)}
  IN  IF FaultedSession # None
      THEN /\ \A i \in 1..Len(Faults[FaultedSession[1]]) :
                Faults[FaultedSession[1]][i] \in returned
           /\ \A n \in Networks :
                StoredCosign(FaultedSession[1], n) =>
                  NetworksLatestCosignedBlock[n][1] \in returned
           /\ \A cosign \in returned : cosign.cosign.global_session = FaultedSession[1]
      ELSE /\ \A i, j \in 1..Len(cosigns) :
                cosigns[i].cosign.cosigner = cosigns[j].cosign.cosigner => i = j
           /\ \A cosign \in returned :
                /\ LatestGlobalSessionIntended # None
                /\ cosign.cosign.global_session = LatestGlobalSessionIntended[1]

\* C23: while no fault is declared, latest_cosigned_block_number() returns
\* LatestCosignedBlockNumber, and 0 when no block has been cosigned; with no
\* finalized block Intend has sent nothing, no block is cosigned and it returns 0.
C23_LatestCosignedWhileUnfaulted ==
  /\ FaultedSession = None =>
       /\ latest_cosigned_block_number.ok
       /\ latest_cosigned_block_number.number =
            IF LatestCosignedBlockNumber = None THEN 0 ELSE LatestCosignedBlockNumber[1]
  /\ latest_finalized_block = 0 =>
       /\ BlockEvents = <<>>
       /\ LatestCosignedBlockNumber = None
       /\ latest_cosigned_block_number = Ok(0)

C23_Witness ==
  /\ FaultedSession = None
  /\ LatestCosignedBlockNumber = Some(1)
  /\ ArchivedCount > 0

\* C24: for all weight_cosigned and total_stake from 0 to MaxStake, the check
\* weight_cosigned >= floor(total_stake*83/100)+1 passes if and only if
\* weight_cosigned*100 > total_stake*83.
C24_ThresholdIsStrictSupermajority ==
  ret # None => (ret[1] <=> args.weight_cosigned * 100 > args.total_stake * 83)

C24_Witness ==
  /\ ret = Some(TRUE)
  /\ args.total_stake = 12
  /\ args.weight_cosigned = 10

\* The expect and the two asserts of the strict session lookup.
StrictPanics == {"panic_no_session", "panic_start", "panic_incremental"}

\* C25: whatever blocks Intend emits and in whatever order Evaluate handles
\* them, the strict session lookup never fails: for the message Evaluate is to
\* handle next, when it needs a session, a session is available if none is
\* current, the current one does not start after the block and the next queued
\* one does not start before it; and Evaluate has not stopped on any of these.
C25_StrictLookupNeverFails ==
  /\ eval_pc \notin StrictPanics
  /\ (BlockEvents # <<>> /\ Head(BlockEvents).has_events # "No") =>
       LET block_number == Head(BlockEvents).block_number
           current == CurrentlyEvaluatedGlobalSession
           after == IF current = None THEN Tail(GlobalSessionsChannel)
                    ELSE GlobalSessionsChannel
       IN  /\ current = None => GlobalSessionsChannel # <<>>
           /\ current # None => current[1].start_block_number <= block_number
           /\ current = None =>
                Head(GlobalSessionsChannel).start_block_number <= block_number
           /\ after # <<>> => block_number <= Head(after).start_block_number
           /\ currently_evaluated_global_session_strict(
                current, GlobalSessionsChannel, block_number).panic = ""

\* Evaluate is to handle a Notable block with no session current yet and two
\* queued: the first was declared by a block sent as No.
C25_Witness ==
  /\ BlockEvents # <<>>
  /\ Head(BlockEvents).has_events = "Notable"
  /\ CurrentlyEvaluatedGlobalSession = None
  /\ Len(GlobalSessionsChannel) = 2
  /\ eval_pc = "loop"

\* C26: the strict session lookup for a block number, when it does not fail,
\* takes the next queued session from the channel and makes it the current
\* session exactly when that session starts at the block number; otherwise it
\* leaves the channel as it is and returns the stored current session. When no
\* session is stored it first takes the first queued session as the stored one.
C26_StrictLookupPromotesAtStart ==
  \A block_number \in 1..MaxBlock :
    LET out == currently_evaluated_global_session_strict(
                 CurrentlyEvaluatedGlobalSession, GlobalSessionsChannel, block_number)
        adopts == CurrentlyEvaluatedGlobalSession = None
        stored == IF adopts THEN Head(GlobalSessionsChannel)
                  ELSE CurrentlyEvaluatedGlobalSession[1]
        queued == IF adopts THEN Tail(GlobalSessionsChannel) ELSE GlobalSessionsChannel
        promotes == queued # <<>> /\ Head(queued).start_block_number = block_number
    IN  out.panic = "" =>
          /\ out.res = out.current
          /\ promotes => out.current = Some(Head(queued)) /\ out.channel = Tail(queued)
          /\ ~promotes => out.current = Some(stored) /\ out.channel = queued

\* The three cases at once: for block 1 the lookup adopts the first queued
\* session, for block 2 it also promotes the second.
C26_Witness ==
  /\ CurrentlyEvaluatedGlobalSession = None
  /\ Len(GlobalSessionsChannel) = 2
  /\ currently_evaluated_global_session_strict(None, GlobalSessionsChannel, 1).channel =
       Tail(GlobalSessionsChannel)
  /\ currently_evaluated_global_session_strict(None, GlobalSessionsChannel, 2).channel = <<>>
  /\ LatestCosignedBlockNumber = Some(1)

\* C27: a call of the non-strict session lookup changes no durable state, the
\* GlobalSessions channel and CurrentlyEvaluatedGlobalSession included, and
\* returns the next queued session exactly when LatestCosignedBlockNumber is set
\* to that session's start block number minus one; otherwise it returns the
\* stored current session, None when none is stored.
C27_NonStrictLookupReadsOnly ==
  [][ret' # ret =>
       /\ UNCHANGED durableVars
       /\ LET queued == GlobalSessionsChannel # <<>>
              next == Head(GlobalSessionsChannel)
              before == /\ LatestCosignedBlockNumber # None
                        /\ LatestCosignedBlockNumber[1] + 1 = next.start_block_number
          IN  /\ (queued /\ before) => ret' = Some(Some(next))
              /\ ~(queued /\ before) => ret' = Some(CurrentlyEvaluatedGlobalSession)]_vars

\* The lookup has returned the queued session that starts at block 2, block 1
\* being cosigned, before the evaluator stored any session.
C27_Witness ==
  /\ ret # None
  /\ ret[1] # None
  /\ GlobalSessionsChannel # <<>>
  /\ ret[1][1] = Head(GlobalSessionsChannel)
  /\ ret[1] # CurrentlyEvaluatedGlobalSession
  /\ LatestCosignedBlockNumber = Some(1)
\* The blocks with a key-generation event among those Intend has processed,
\* and the first of them after a block.
IntendedStarts == {k \in 1..(ScanCosignFrom - 1) : chain[k].key_gen}
SuccessorStart(k) ==
  LET later == {j \in IntendedStarts : j > k}
  IN  IF later = {} THEN None ELSE Some(CHOOSE j \in later : \A l \in later : j <= l)

ClassOf(block_number) ==
  IF cosigning_sets_for_block(block_number) = <<>> THEN "No"
  ELSE IF chain[block_number].key_gen THEN "Notable"
  ELSE IF chain[block_number].burn THEN "NonNotable"
  ELSE "No"

C30_LocalHashesOfScannedBlocks ==
  \A block_number \in 1..MaxBlock :
    block_hash(block_number) # None <=> block_number \in 1..(ScanCosignFrom - 1)

\* The state Intend commits: the channels it sends on and the tables it writes.
intendWrites == <<ScanCosignFrom, BlockEvents, GlobalSessionsChannel, IntendedCosigns,
                  GlobalSessions, LatestGlobalSessionIntended, GlobalSessionLastBlock>>

\* C31: when a call of the node fails while Intend processes block n, the
\* run_iteration returns an error and nothing of block n is written: no
\* BlockEvents message, no CosignIntent, no session, and ScanCosignFrom is
\* still n; the blocks the same run_iteration processed before n stay
\* committed, each with its message, and the next run_iteration starts at n.
C31_FailedPassWritesNothing ==
  /\ [][ret' = Some(Err) /\ ret # Some(Err) =>
          /\ UNCHANGED intendWrites
          /\ args # <<>> =>
               /\ args.start_block_number <= ScanCosignFrom'
               /\ \A b \in args.start_block_number..(ScanCosignFrom' - 1) :
                    BlockEvents'[b].block_number = b]_vars
  /\ [][args = <<>> /\ args' # <<>> => args'.start_block_number = ScanCosignFrom]_vars
  /\ [](Len(BlockEvents) = ScanCosignFrom - 1)

C31_Witness ==
  /\ ret = Some(Err)
  /\ args = <<>>
  /\ ScanCosignFrom = 2
  /\ latest_finalized_block = 2
  /\ Len(BlockEvents) = 1
  /\ chain[2].key_gen
  /\ GlobalSessions[DeclaredSession(2).id] = None

\* C38: a run_iteration of Intend returns Ok(true) if and only if it processed
\* and committed at least one block, and Ok(false) exactly when the
\* ScanCosignFrom it read exceeds the latest finalized block number it read.
C38_MadeProgressIffBlockProcessed ==
  [][args # <<>> /\ ret' # None /\ ret'[1].ok =>
       /\ ret'[1].number = (ScanCosignFrom > args.start_block_number)
       /\ ret'[1].number = ~(args.start_block_number > args.latest_block_number)
       /\ ScanCosignFrom = IF ret'[1].number THEN args.latest_block_number + 1
                           ELSE args.start_block_number
       /\ UNCHANGED intendWrites]_vars

C38_Witness ==
  /\ ret = Some(Ok(TRUE))
  /\ args = <<>>
  /\ ScanCosignFrom = 2
  /\ latest_finalized_block = 1
  /\ Len(BlockEvents) = 1

\* The lowest block number among the latest cosigns counted for a block.
LowestCounted(global_session, block_number) ==
  LET numbers == {NetworksLatestCosignedBlockGet(global_session, n)[1].cosign.block_number :
                    n \in NonNotableCosigners(global_session, block_number)}
  IN  CHOOSE m \in numbers : \A k \in numbers : m <= k

\* C32: when Evaluate cosigns a NonNotable block b without the cache,
\* known_cosign becomes the lowest block number among the latest cosigns counted
\* toward the weight, those at b or later, and so is at least b; a later
\* NonNotable block of the same run_iteration that known_cosign covers is
\* cosigned without a session lookup; the cache of one run_iteration is not the
\* cache of the next.
C32_KnownCosignIsLowestCounted ==
  /\ [][(/\ BlockEvents # <<>>
         /\ Head(BlockEvents).has_events = "NonNotable"
         /\ ~known_cosigned(IterationKnown, Head(BlockEvents).block_number)
         /\ LatestCosignedBlockNumber' # LatestCosignedBlockNumber
         /\ LatestCosignedBlockNumber' = Some(Head(BlockEvents).block_number))
        => LET block_number == Head(BlockEvents).block_number
               global_session == CurrentlyEvaluatedGlobalSession'[1].id
           IN  /\ known_cosign' = Some(LowestCounted(global_session, block_number))
               /\ known_cosign'[1] >= block_number]_vars
  /\ [][(/\ eval_pc = "loop" /\ eval_pc' # eval_pc
         /\ BlockEvents # <<>>
         /\ Head(BlockEvents).has_events = "NonNotable"
         /\ known_cosigned(known_cosign, Head(BlockEvents).block_number))
        => /\ LatestCosignedBlockNumber' = Some(Head(BlockEvents).block_number)
           /\ UNCHANGED <<CurrentlyEvaluatedGlobalSession, GlobalSessionsChannel>>]_vars
  /\ [](eval_pc = "idle" => known_cosign = None)

\* C33: no intake_cosign, whatever it stores and wherever the Evaluate task is
\* in its run_iteration, writes LatestCosignedBlockNumber or
\* CurrentlyEvaluatedGlobalSession or takes a message from the BlockEvents or the
\* GlobalSessions channel.
C33_IntakeLeavesEvaluatorState ==
  [][intakeVars' # intakeVars =>
       UNCHANGED <<LatestCosignedBlockNumber, CurrentlyEvaluatedGlobalSession,
                   BlockEvents, GlobalSessionsChannel>>]_vars

C33_Witness ==
  /\ eval_pc = "loop"
  /\ BlockEvents # <<>>
  /\ GlobalSessionsChannel # <<>>
  /\ LatestCosignedBlockNumber = Some(1)
  /\ \E n \in Networks : NetworksLatestCosignedBlock[n] # None
  /\ \E id \in AllSessionIds : Faults[id] # <<>>

\* C34: a step of the Delay task changes only LatestAcknowledgedBlockNumber and
\* the head of the CosignedBlocks channel, besides its own position: the
\* LatestCosignedBlockNumber that Evaluate and the facade read and every table
\* the intake reads are as before.
C34_DelayLeavesEvaluatorAndIntake ==
  [][delay_pc' # delay_pc =>
       /\ UNCHANGED <<oracleVars, intendVars, intakeVars, LatestCosignedBlockNumber,
                      CurrentlyEvaluatedGlobalSession, eval_pc, local_latest_cosigned,
                      known_cosign>>
       /\ CosignedBlocks' \in {CosignedBlocks, Tail(CosignedBlocks)}
       /\ latest_cosigned_block_number' = latest_cosigned_block_number]_vars

C34_Witness ==
  /\ LatestAcknowledgedBlockNumber = Some(1)
  /\ LatestCosignedBlockNumber = Some(2)
  /\ delay_pc = "idle"
  /\ Len(CosignedBlocks) = 1
  /\ \E n \in Networks : NetworksLatestCosignedBlock[n] # None

\* The thresholds over the integers.
MathematicalThresholds(total) ==
  [panic |-> FALSE, supermajority |-> ((total * 83) \div 100) + 1,
   fault |-> (total * 17) \div 100]

\* C35 as stated: for every total stake up to 2^(w-1) the products by 83 and by
\* 17 do not wrap in w bits and the thresholds computed in w bits are
\* floor(total*83/100)+1 and floor(total*17/100).
C35_NoWrapUpToHalfRange ==
  ret # None /\ args.total_stake <= 2 ^ (WordBits - 1) =>
    /\ ~overflows(args.total_stake, 83)
    /\ ret[1] = MathematicalThresholds(args.total_stake)

\* C35, amended: the same for every total stake up to floor((2^w - 1) / 83).
C35_NoWrapUpToRangeOver83 ==
  ret # None /\ args.total_stake <= (2 ^ WordBits - 1) \div 83 =>
    /\ ~overflows(args.total_stake, 83)
    /\ ~overflows(args.total_stake, 17)
    /\ ret[1] = MathematicalThresholds(args.total_stake)

C35_Witness ==
  /\ ret # None
  /\ args.total_stake = (2 ^ WordBits - 1) \div 83
  /\ args.total_stake > 0
  /\ ret[1].supermajority = SupermajorityThreshold(args.total_stake)

\* C36: in every reachable state every cosign stored in
\* NetworksLatestCosignedBlock carries the hash the node holds for its block
\* number, and every cosign stored in Faults carries another hash than the one
\* the node holds for its block number.
C36_StoredCosignsAgreeFaultsDisagree ==
  /\ \A n \in Networks :
       NetworksLatestCosignedBlock[n] # None =>
         block_hash(NetworksLatestCosignedBlock[n][1].cosign.block_number) =
           Some(NetworksLatestCosignedBlock[n][1].cosign.block_hash)
  /\ \A id \in AllSessionIds : \A i \in 1..Len(Faults[id]) :
       /\ block_hash(Faults[id][i].cosign.block_number) # None
       /\ block_hash(Faults[id][i].cosign.block_number) #
            Some(Faults[id][i].cosign.block_hash)

C36_Witness ==
  /\ \E n \in Networks :
       /\ NetworksLatestCosignedBlock[n] # None
       /\ NetworksLatestCosignedBlock[n][1].cosign.block_number = 2
  /\ \E id \in AllSessionIds :
       /\ Faults[id] # <<>>
       /\ Faults[id][1].cosign.block_number = 2

C39_FaultedSessionHasFaults ==
  FaultedSession # None => Faults[FaultedSession[1]] # <<>>

C39_Witness ==
  /\ FaultedSession # None
  /\ Len(Faults[FaultedSession[1]]) = 1
  /\ Len(cosigns_to_rebroadcast) >= 1

\* C40: once FaultedSession holds a session id, no later intake_cosign replaces
\* it with the id of another session, whatever faults of other registered
\* sessions reach the threshold afterwards.
C40_FaultedSessionIsFinal ==
  [][FaultedSession # None => FaultedSession' = FaultedSession]_vars
====
